---------------------------- MODULE Spec2Model ----------------------------
(***************************************************************************)
(* Model of pymc/distributions/multivariate.py: the four multivariate      *)
(* distributions MvNormal, Dirichlet, Multinomial and Wishart, each a      *)
(* constructor returning locals() (its parameters, logp, mean, mode).      *)
(*                                                                         *)
(* Numbers are exact values of the extended reals with the IEEE special    *)
(* values: a finite number is a rational plus a rational combination of    *)
(* the atoms log(prime), log(pi) and multigammaln(p, n/2); the others are  *)
(* +inf, -inf and NaN.  A raised backend exception is the value Raise.     *)
(***************************************************************************)
EXTENDS Integers, Sequences, FiniteSets, TLC

(***************************************************************************)
(* Bounds of the model.                                                    *)
(***************************************************************************)
MaxDim == 2      \* MvNormal: k in 1..MaxDim; Wishart: p in 1..MaxDim, n in 0..MaxDim+2
MaxEntry == 2    \* matrix and mean-vector entries are in 0..MaxEntry
MaxK == 3        \* Dirichlet: k in 0..MaxK; Multinomial: 2..MaxK outcomes
MaxA == 3        \* Dirichlet: concentrations a_i in 0..MaxA
MaxDen == 4      \* simplex coordinates are j/MaxDen
MaxN == 3        \* Multinomial: n in 0..MaxN
MaxProbDen == 3  \* Multinomial: probabilities are j/MaxProbDen, j >= -1
NCallers == 2    \* threads evaluating logp

Callers == 1..NCallers

(***************************************************************************)
(* Rationals <<num, den>>, den > 0, in lowest terms.                       *)
(***************************************************************************)
Abs(i) == IF i < 0 THEN -i ELSE i

RECURSIVE GCD(_, _)
GCD(a, b) == IF b = 0 THEN a ELSE GCD(b, a % b)

Rat(n, d) ==
    LET s == IF d < 0 THEN -1 ELSE 1
        g == GCD(Abs(n), Abs(d))
    IN  <<(s * n) \div g, (s * d) \div g>>

RZero == <<0, 1>>
RAdd(x, y) == Rat(x[1] * y[2] + y[1] * x[2], x[2] * y[2])
RMul(x, y) == Rat(x[1] * y[1], x[2] * y[2])
RNeg(x) == <<-x[1], x[2]>>
RInv(x) == Rat(x[2], x[1])
RSign(x) == IF x[1] > 0 THEN 1 ELSE IF x[1] < 0 THEN -1 ELSE 0

(***************************************************************************)
(* Atoms of the finite numbers.                                            *)
(***************************************************************************)
\* log(q) for a prime q, log(pi), and multigammaln(p, n / 2)
LogAtom(q) == <<"log", q, 0>>
PiAtom == <<"logpi", 0, 0>>
MglAtom(p, n) == <<"multigammaln", p, n>>
\* a combination of atoms: a function from its atoms to their non-zero
\* coefficients
ZeroL == <<>>
Coef(l, t) == IF t \in DOMAIN l THEN l[t] ELSE RZero
Trim(f) == [t \in {u \in DOMAIN f : f[u] # RZero} |-> f[t]]
LAdd(l, m) ==
    Trim([t \in (DOMAIN l) \cup (DOMAIN m) |-> RAdd(Coef(l, t), Coef(m, t))])
LScale(c, l) == Trim([t \in DOMAIN l |-> RMul(c, l[t])])

(***************************************************************************)
(* Extended reals.                                                         *)
(***************************************************************************)
Fin(q, l) == [k |-> "fin", q |-> q, l |-> l]
Special(s) == [k |-> s, q |-> RZero, l |-> ZeroL]
Inf == Special("pinf")
NegInf == Special("ninf")
NaN == Special("nan")
Raise == Special("raise")
Q(n, d) == Fin(Rat(n, d), ZeroL)
N(i) == Q(i, 1)
AtomNum(t) == Fin(RZero, [u \in {t} |-> <<1, 1>>])

IsFin(x) == x.k = "fin"
IsPure(x) == x.k = "fin" /\ DOMAIN x.l = {}
IsZero(x) == x = N(0)

Neg(x) ==
    CASE x.k = "fin" -> Fin(RNeg(x.q), LScale(<<-1, 1>>, x.l))
      [] x.k = "pinf" -> NegInf
      [] x.k = "ninf" -> Inf
      [] OTHER -> x

Add(x, y) ==
    CASE x.k = "raise" \/ y.k = "raise" -> Raise
      [] x.k = "nan" \/ y.k = "nan" -> NaN
      [] x.k = "fin" /\ y.k = "fin" ->
            Fin(RAdd(x.q, y.q), LAdd(x.l, y.l))
      [] x.k = "fin" -> y
      [] y.k = "fin" -> x
      [] x.k = y.k -> x
      [] OTHER -> NaN

Sub(x, y) == Add(x, Neg(y))

\* c * y where the finite factor c carries no logarithm (every product of
\* the source has such a factor); 0 * inf is NaN.
Mul(c, y) ==
    CASE c.k = "raise" \/ y.k = "raise" -> Raise
      [] c.k = "nan" \/ y.k = "nan" -> NaN
      [] c.k = "fin" /\ y.k = "fin" ->
            Fin(RMul(c.q, y.q), LScale(c.q, y.l))
      [] c.k = "fin" ->
            IF RSign(c.q) = 0 THEN NaN
            ELSE IF RSign(c.q) > 0 THEN y ELSE Neg(y)
      [] y.k = "fin" ->
            IF RSign(y.q) = 0 THEN NaN
            ELSE IF RSign(y.q) > 0 THEN c ELSE Neg(c)
      [] OTHER -> IF c.k = y.k THEN Inf ELSE NegInf

\* x / c for a divisor c that carries no logarithm; x / 0 is +-inf or NaN.
Div(x, c) ==
    CASE x.k = "raise" \/ c.k = "raise" -> Raise
      [] x.k = "nan" \/ c.k = "nan" -> NaN
      [] c.k # "fin" -> IF x.k = "fin" THEN N(0) ELSE NaN
      [] RSign(c.q) # 0 -> Mul(Fin(RInv(c.q), ZeroL), x)
      [] x.k # "fin" -> x
      [] RSign(x.q) = 0 -> NaN
      [] OTHER -> IF RSign(x.q) > 0 THEN Inf ELSE NegInf

\* Comparisons of numbers free of logarithms; any comparison with NaN is false.
Lt(x, y) ==
    CASE x.k \in {"nan", "raise"} \/ y.k \in {"nan", "raise"} -> FALSE
      [] x.k = "fin" /\ y.k = "fin" -> x.q[1] * y.q[2] < y.q[1] * x.q[2]
      [] x.k = "ninf" -> y.k # "ninf"
      [] y.k = "pinf" -> x.k # "pinf"
      [] OTHER -> FALSE
Gt(x, y) == Lt(y, x)
Le(x, y) == Lt(x, y) \/ (x = y /\ x.k \notin {"nan", "raise"})
Ge(x, y) == Le(y, x)

\* log of a positive integer: the sum over its prime factors.
RECURSIVE LogNatFrom(_, _)
LogNatFrom(m, d) ==
    IF m = 1 THEN N(0)
    ELSE IF m % d = 0 THEN Add(AtomNum(LogAtom(d)), LogNatFrom(m \div d, d))
    ELSE LogNatFrom(m, d + 1)
LogNat(m) == LogNatFrom(m, 2)

\* theano.tensor.log of a number free of logarithms.
Log(x) ==
    CASE x.k = "raise" -> Raise
      [] x.k = "nan" \/ x.k = "ninf" -> NaN
      [] x.k = "pinf" -> Inf
      [] RSign(x.q) < 0 -> NaN
      [] RSign(x.q) = 0 -> NegInf
      [] OTHER -> Sub(LogNat(x.q[1]), LogNat(x.q[2]))

\* log(2*pi)
Log2Pi == Add(LogNat(2), AtomNum(PiAtom))

\* theano.tensor.gammaln at an integer: log((x-1)!), +inf at the poles.
RECURSIVE LogFact(_)
LogFact(m) == IF m <= 1 THEN N(0) ELSE Add(LogNat(m), LogFact(m - 1))
GammaLn(x) ==
    CASE x.k = "raise" -> Raise
      [] x.k = "nan" -> NaN
      [] x.k # "fin" -> Inf
      [] x.q[1] <= 0 -> Inf
      [] OTHER -> LogFact(x.q[1] - 1)

(***************************************************************************)
(* Tensors: a vector is a sequence of numbers, a matrix a sequence of rows.*)
(***************************************************************************)
RECURSIVE SumFrom(_, _)
SumFrom(v, i) == IF i > Len(v) THEN N(0) ELSE Add(v[i], SumFrom(v, i + 1))
\* theano.tensor.sum of a vector
Sum(v) == SumFrom(v, 1)
\* theano.tensor.all of a vector of truth values
All(b) == \A i \in 1..Len(b) : b[i]
\* theano.tensor.dot of two vectors, and of a matrix and a vector
Dot(u, v) == Sum([i \in 1..Len(u) |-> Mul(u[i], v[i])])
MatVec(M, v) == [i \in 1..Len(M) |-> Dot(M[i], v)]
MatMul(A, B) ==
    [i \in 1..Len(A) |->
        [j \in 1..Len(B[1]) |-> Sum([m \in 1..Len(B) |-> Mul(A[i][m], B[m][j])])]]

Drop(s, j) == [i \in 1..(Len(s) - 1) |-> IF i < j THEN s[i] ELSE s[i + 1]]
Minor(M, r, c) == [i \in 1..(Len(M) - 1) |-> Drop(Drop(M, r)[i], c)]

\* theano.sandbox.linalg.det: the Laplace expansion along the first row
RECURSIVE Det(_)
Det(M) ==
    IF Len(M) = 0 THEN N(1)
    ELSE IF Len(M) = 1 THEN M[1][1]
    ELSE Sum([j \in 1..Len(M) |->
                Mul(IF j % 2 = 1 THEN N(1) ELSE N(-1),
                    Mul(M[1][j], Det(Minor(M, 1, j))))])

\* theano.sandbox.linalg.solve(V, X) = V^-1 X; the backend solver raises
\* on a singular V.
Solve(V, X) ==
    LET d == Det(V)
        inv == [i \in 1..Len(V) |-> [j \in 1..Len(V) |->
                  Div(Mul(IF (i + j) % 2 = 0 THEN N(1) ELSE N(-1),
                          Det(Minor(V, j, i))), d)]]
    IN  IF IsZero(d)
        THEN [i \in 1..Len(X) |-> [j \in 1..Len(X[i]) |-> Raise]]
        ELSE MatMul(inv, X)

\* theano.sandbox.linalg.trace
Trace(M) == Sum([i \in 1..Len(M) |-> M[i][i]])

(***************************************************************************)
(* Helpers of dist_math.                                                   *)
(***************************************************************************)
\* bound(logp, *conditions): the raw value is computed unconditionally and
\* replaced by -inf unless every condition holds.
Bound(logp, conditions) ==
    IF logp = Raise THEN Raise
    ELSE IF All(conditions) THEN logp ELSE NegInf

\* logpow(x, m) = m * log(x), for x > 0
LogPow(x, m) == Mul(m, Log(x))

\* factln(n) = log(n!)
FactLn(n) == GammaLn(Add(n, N(1)))

\* multigammaln(p, n / 2), left uninterpreted
MultiGammaLn(p, n) == AtomNum(MglAtom(p, n))

(***************************************************************************)
(* MvNormal(mu, tau)                                                       *)
(***************************************************************************)
\* delta = value - mu, in place on value: the mutant of MvNormal_enter
MvNormal_enter_inplace(d, v) ==
    LET delta == [i \in 1..Len(v) |-> Sub(v[i], d.mu[i])]
    IN  [loc |-> delta, value |-> delta]

\* lines 26-27: the local delta; value and the parameters are only read
MvNormal_enter(d, v) ==
    [loc |-> [i \in 1..Len(v) |-> Sub(v[i], d.mu[i])], value |-> v]

\* line 29
MvNormal_return(d, v, delta) ==
    LET k == Len(d.tau)
    IN  Mul(Q(1, 2),
            Sub(Add(Mul(N(-k), Log2Pi), Log(Det(d.tau))),
                Dot(delta, MatVec(d.tau, delta))))

\* lines 10-33: locals()
MvNormal_locals(mu, tau) ==
    [name |-> "MvNormal", mu |-> mu, tau |-> tau,
     mean |-> mu, median |-> mu, mode |-> mu]

(***************************************************************************)
(* Dirichlet(k, a)                                                         *)
(***************************************************************************)
\* line 64: a = ones([k]) * a, for a scalar a or a vector a of length k
OnesTimes(k, a) ==
    IF a.dim = 0 THEN [i \in 1..k |-> Mul(N(1), a.v)]
    ELSE [i \in 1..Len(a.v) |-> Mul(N(1), a.v[i])]

Dirichlet_enter(d, v) == [loc |-> N(0), value |-> v]

\* lines 70-71; the elementwise logpow(value, a - 1) raises on vectors of
\* different lengths (theano broadcasts no dimension of a vector variable)
Dirichlet_raw(d, v) ==
    IF Len(v) # Len(d.a) THEN Raise
    ELSE Add(Sum([i \in 1..Len(v) |->
                    Sub(LogPow(v[i], Sub(d.a[i], N(1))), GammaLn(d.a[i]))]),
             GammaLn(Sum(d.a)))

\* lines 73-74: k > 1, a > 0
Dirichlet_guards(d) ==
    <<d.k > 1, All([i \in 1..Len(d.a) |-> Gt(d.a[i], N(0))])>>

\* lines 69-74
Dirichlet_return(d, v, l) == Bound(Dirichlet_raw(d, v), Dirichlet_guards(d))

\* line 76
Dirichlet_mean(a) == [i \in 1..Len(a) |-> Div(a[i], Sum(a))]

\* the switch taken per coordinate: the mutant of Dirichlet_mode
Dirichlet_mode_percoord(a) ==
    LET am1 == [i \in 1..Len(a) |-> Sub(a[i], N(1))]
    IN  [i \in 1..Len(a) |->
           IF Gt(a[i], N(1)) THEN Div(am1[i], Sum(am1)) ELSE NaN]

\* lines 78-80
Dirichlet_mode(a) ==
    LET am1 == [i \in 1..Len(a) |-> Sub(a[i], N(1))]
    IN  IF All([i \in 1..Len(a) |-> Gt(a[i], N(1))])
        THEN [i \in 1..Len(a) |-> Div(am1[i], Sum(am1))]
        ELSE [i \in 1..Len(a) |-> NaN]

\* lines 37-82: locals()
Dirichlet_locals(k, a0) ==
    LET a == OnesTimes(k, a0)
    IN  [name |-> "Dirichlet", k |-> k, a_arg |-> a0, a |-> a,
         mean |-> Dirichlet_mean(a), mode |-> Dirichlet_mode(a)]

(***************************************************************************)
(* Multinomial(n, p)                                                       *)
(***************************************************************************)
Multinomial_enter(d, v) == [loc |-> N(0), value |-> v]

\* the term factln(n) left out: the mutant of Multinomial_raw
Multinomial_raw_nofactln(d, x) ==
    Sum([i \in 1..Len(x) |-> Sub(Mul(x[i], Log(d.p[i])), FactLn(x[i]))])

\* line 118
Multinomial_raw(d, x) ==
    Add(FactLn(d.n),
        Sum([i \in 1..Len(x) |-> Sub(Mul(x[i], Log(d.p[i])), FactLn(x[i]))]))

\* the condition x <= n left out: the mutant of Multinomial_guards
Multinomial_guards_noupper(d, x) ==
    <<Gt(d.n, N(0)), All([i \in 1..Len(x) |-> Le(N(0), x[i])])>>

\* lines 119-120: n > 0, 0 <= x, x <= n
Multinomial_guards(d, x) ==
    <<Gt(d.n, N(0)),
      All([i \in 1..Len(x) |-> Le(N(0), x[i])]),
      All([i \in 1..Len(x) |-> Le(x[i], d.n)])>>

\* lines 117-120
Multinomial_return(d, x, l) ==
    Bound(Multinomial_raw(d, x), Multinomial_guards(d, x))

\* line 122
Multinomial_mean(n, p) == [i \in 1..Len(p) |-> Mul(n, p[i])]

\* lines 86-124: locals()
Multinomial_locals(n, p) ==
    [name |-> "Multinomial", n |-> n, p |-> p, mean |-> Multinomial_mean(n, p)]

(***************************************************************************)
(* Wishart(n, p, V)                                                        *)
(***************************************************************************)
\* line 155: IVI = det(V)
Wishart_enter(d, X) == [loc |-> Det(d.V), value |-> X]

\* the first term taken of det(X), as in the docstring's density: the mutant
\* of Wishart_raw
Wishart_raw_detX(d, X, IVI) ==
    Div(Sub(Sub(Sub(Sub(Mul(Sub(Sub(d.n, d.p), N(1)), Log(Det(X))),
                        Trace(Solve(d.V, X))),
                    Mul(Mul(d.n, d.p), Log(N(2)))),
                Mul(d.n, Log(IVI))),
            Mul(N(2), MultiGammaLn(d.p.q[1], d.n.q[1]))),
        N(2))

\* lines 157-159
Wishart_raw(d, X, IVI) ==
    Div(Sub(Sub(Sub(Sub(Mul(Sub(Sub(d.n, d.p), N(1)), Log(IVI)),
                        Trace(Solve(d.V, X))),
                    Mul(Mul(d.n, d.p), Log(N(2)))),
                Mul(d.n, Log(IVI))),
            Mul(N(2), MultiGammaLn(d.p.q[1], d.n.q[1]))),
        N(2))

\* n >= p - 1: a mutant of Wishart_guards
Wishart_guards_weak(d) == <<Ge(d.n, Sub(d.p, N(1)))>>

\* line 161: n > p - 1
Wishart_guards(d) == <<Gt(d.n, Sub(d.p, N(1)))>>

\* lines 156-161
Wishart_return(d, X, IVI) == Bound(Wishart_raw(d, X, IVI), Wishart_guards(d))

\* line 163
Wishart_mean(n, V) == [i \in 1..Len(V) |-> [j \in 1..Len(V[i]) |-> Mul(n, V[i][j])]]

\* n > p + 1: the mutant of Wishart_mode
Wishart_mode_strict(n, p, V) ==
    IF Gt(n, Add(p, N(1)))
    THEN [i \in 1..Len(V) |->
            [j \in 1..Len(V[i]) |-> Mul(Sub(Sub(n, p), N(1)), V[i][j])]]
    ELSE [i \in 1..Len(V) |-> [j \in 1..Len(V[i]) |-> NaN]]

\* the condition n >= p - 1: another mutant of Wishart_mode
Wishart_mode_early(n, p, V) ==
    IF Ge(n, Sub(p, N(1)))
    THEN [i \in 1..Len(V) |->
            [j \in 1..Len(V[i]) |-> Mul(Sub(Sub(n, p), N(1)), V[i][j])]]
    ELSE [i \in 1..Len(V) |-> [j \in 1..Len(V[i]) |-> NaN]]

\* lines 164-166
Wishart_mode(n, p, V) ==
    IF Ge(n, Add(p, N(1)))
    THEN [i \in 1..Len(V) |->
            [j \in 1..Len(V[i]) |-> Mul(Sub(Sub(n, p), N(1)), V[i][j])]]
    ELSE [i \in 1..Len(V) |-> [j \in 1..Len(V[i]) |-> NaN]]

\* lines 128-168: locals()
Wishart_locals(n, p, V) ==
    [name |-> "Wishart", n |-> n, p |-> p, V |-> V,
     mean |-> Wishart_mean(n, V), mode |-> Wishart_mode(n, p, V)]

(***************************************************************************)
(* logp of a constructed distribution: its first statement, then its       *)
(* return expression.                                                      *)
(***************************************************************************)
LogpEnter(d, v) ==
    CASE d.name = "MvNormal" -> MvNormal_enter(d, v)
      [] d.name = "Dirichlet" -> Dirichlet_enter(d, v)
      [] d.name = "Multinomial" -> Multinomial_enter(d, v)
      [] d.name = "Wishart" -> Wishart_enter(d, v)

LogpReturn(d, v, l) ==
    CASE d.name = "MvNormal" -> MvNormal_return(d, v, l)
      [] d.name = "Dirichlet" -> Dirichlet_return(d, v, l)
      [] d.name = "Multinomial" -> Multinomial_return(d, v, l)
      [] d.name = "Wishart" -> Wishart_return(d, v, l)

Logp(d, v) == LogpReturn(d, v, LogpEnter(d, v).loc)

\* the tensors the caller passed to the constructor
CallerArgs(d) ==
    CASE d.name = "MvNormal" -> <<d.mu, d.tau>>
      [] d.name = "Dirichlet" -> <<N(d.k), d.a_arg.v>>
      [] d.name = "Multinomial" -> <<d.n, d.p>>
      [] d.name = "Wishart" -> <<d.n, d.p, d.V>>
      [] OTHER -> <<>>

(***************************************************************************)
(* Inputs.  Every family takes the number s its bounds are lowered by.     *)
(***************************************************************************)
IntOf(x) == x.q[1]
RECURSIVE IntSumFrom(_, _)
IntSumFrom(x, i) == IF i > Len(x) THEN 0 ELSE IntOf(x[i]) + IntSumFrom(x, i + 1)
IntSum(x) == IntSumFrom(x, 1)

Ints(lo, hi) == {N(j) : j \in lo..hi}
Vectors(m, S) == [1..m -> S]
Fractions(lo, den) == {Q(j, den) : j \in lo..den}
Scalar(x) == [dim |-> 0, v |-> x]
Vector(w) == [dim |-> 1, v |-> w]

\* The symmetric m x m matrix with diagonal (a, c, ..., c) and b off the
\* diagonal: for m <= 2 these are all the symmetric matrices.
Matrix(m, a, b, c) ==
    [i \in 1..m |-> [j \in 1..m |-> IF i # j THEN b ELSE IF i = 1 THEN a ELSE c]]
SymMatrices(m, S) == {Matrix(m, a, b, c) : a \in S, b \in S, c \in S}
\* those with a constant diagonal
ConstDiagMatrices(m, S) == {Matrix(m, a, b, a) : a \in S, b \in S}

\* Multinomial counts: the support {x : 0 <= x_i, sum(x) = n}, and the support
\* with the first count replaced by -1 or by n+1.
Counts(n, m) ==
    LET support == {x \in Vectors(m, Ints(0, n)) : IntSum(x) = n}
    IN  support \cup {[x EXCEPT ![1] = r] : x \in support, r \in {N(-1), N(n + 1)}}

\* The values logp is evaluated at: for the Dirichlet, a point of the simplex
\* given by all k coordinates or, for k > 1 and as in the docstring, by the
\* first k-1.
Values(d, s) ==
    CASE d.name = "MvNormal" -> Vectors(Len(d.mu), Ints(0, 1))
      [] d.name = "Dirichlet" ->
            {v \in Vectors(d.k, Fractions(1, MaxDen - s)) : d.k = 0 \/ Sum(v) = N(1)}
            \cup {v \in Vectors(IF d.k < 2 THEN 0 ELSE d.k - 1, Fractions(1, MaxDen - s)) :
                     d.k > 1 /\ Lt(Sum(v), N(1))}
      [] d.name = "Multinomial" -> Counts(IntOf(d.n), Len(d.p))
      [] d.name = "Wishart" -> ConstDiagMatrices(Len(d.V), Ints(0, MaxEntry - s))

(***************************************************************************)
(* State.                                                                  *)
(*   dist   locals() of the constructed distribution ("none" before)       *)
(*   value  the value tensor logp is evaluated at                          *)
(*   pc     each caller's position: idle, logp (inside logp), done         *)
(*   loc    each caller's local of logp (delta, IVI)                       *)
(*   res    each caller's returned log-density                             *)
(*   given  history: the tensors as the caller handed them over            *)
(*   overlapped  history: two callers have been inside logp at once        *)
(***************************************************************************)
VARIABLES dist, value, pc, loc, res, given, overlapped

vars == <<dist, value, pc, loc, res, given, overlapped>>

NoDist == [name |-> "none"]
Unbound == [bound |-> FALSE, v |-> <<>>]
NoneGiven == [args |-> <<>>, v |-> <<>>]
Idle == [c \in Callers |-> "idle"]
NoNum == [c \in Callers |-> N(0)]

Init ==
    /\ dist = NoDist
    /\ value = Unbound
    /\ pc = Idle
    /\ loc = NoNum
    /\ res = NoNum
    /\ given = NoneGiven
    /\ overlapped = FALSE

Construct(d) ==
    /\ dist' = d
    /\ given' = [args |-> CallerArgs(d), v |-> <<>>]
    /\ UNCHANGED <<value, pc, loc, res, overlapped>>

MvNormalB(s) ==
    /\ dist.name = "none"
    /\ \E k \in 1..(MaxDim - s) :
        \E mu \in Vectors(k, Ints(0, 1)),
           tau \in SymMatrices(k, Ints(0, MaxEntry - s)) :
            Construct(MvNormal_locals(mu, tau))

DirichletB(s) ==
    /\ dist.name = "none"
    /\ \E k \in 0..(MaxK - s) :
        \/ \E x \in Ints(0, MaxA - s) : Construct(Dirichlet_locals(k, Scalar(x)))
        \/ \E w \in Vectors(k, Ints(0, MaxA - s)) :
              Construct(Dirichlet_locals(k, Vector(w)))

MultinomialB(s) ==
    /\ dist.name = "none"
    /\ \E n \in Ints(0, MaxN - s), m \in 2..(MaxK - s) :
        \E p \in {w \in Vectors(m, Fractions(-1, MaxProbDen - s)) : Sum(w) = N(1)} :
            Construct(Multinomial_locals(n, p))

WishartB(s) ==
    /\ dist.name = "none"
    /\ \E n \in Ints(0, MaxDim - s + 2), p \in 1..(MaxDim - s) :
        \E V \in SymMatrices(p, Ints(0, MaxEntry - s)) :
            Construct(Wishart_locals(n, N(p), V))

\* the caller binds the value tensor of the distribution
Bind(s) ==
    /\ dist.name # "none"
    /\ ~value.bound
    /\ \E v \in Values(dist, s) :
        /\ value' = [bound |-> TRUE, v |-> v]
        /\ given' = [given EXCEPT !.v = v]
    /\ UNCHANGED <<dist, pc, loc, res, overlapped>>

\* caller c enters logp(value) and runs its first statement
Call(c) ==
    /\ value.bound
    /\ pc[c] # "logp"
    /\ LET e == LogpEnter(dist, value.v)
       IN  /\ loc' = [loc EXCEPT ![c] = e.loc]
           /\ value' = [value EXCEPT !.v = e.value]
    /\ pc' = [pc EXCEPT ![c] = "logp"]
    /\ res' = [res EXCEPT ![c] = N(0)]
    /\ overlapped' = (overlapped \/ \E o \in Callers \ {c} : pc[o] = "logp")
    /\ UNCHANGED <<dist, given>>

\* caller c evaluates the return expression of logp
Return(c) ==
    /\ pc[c] = "logp"
    /\ res' = [res EXCEPT ![c] = LogpReturn(dist, value.v, loc[c])]
    /\ pc' = [pc EXCEPT ![c] = "done"]
    /\ loc' = [loc EXCEPT ![c] = N(0)]
    /\ UNCHANGED <<dist, value, given, overlapped>>

\* the distribution and its value are dropped
Discard ==
    /\ dist.name # "none"
    /\ \A c \in Callers : pc[c] # "logp"
    /\ dist' = NoDist
    /\ value' = Unbound
    /\ pc' = Idle
    /\ loc' = NoNum
    /\ res' = NoNum
    /\ given' = NoneGiven
    /\ overlapped' = FALSE

MvNormal == MvNormalB(0)
Dirichlet == DirichletB(0)
Multinomial == MultinomialB(0)
Wishart == WishartB(0)

\* One caller: the evaluations follow one another.
First == CHOOSE c \in Callers : \A o \in Callers : c <= o

Next ==
    \/ MvNormal
    \/ Dirichlet
    \/ Multinomial
    \/ Wishart
    \/ Bind(0)
    \/ Call(First)
    \/ Return(First)
    \/ Discard

Spec == Init /\ [][Next]_vars

\* Any number of callers, their evaluations interleaved statement by statement;
\* the inputs are drawn with every bound lowered by one.
NextConcurrent ==
    \/ MvNormalB(1)
    \/ DirichletB(1)
    \/ MultinomialB(1)
    \/ WishartB(1)
    \/ Bind(1)
    \/ \E c \in Callers : Call(c)
    \/ \E c \in Callers : Return(c)
    \/ Discard

SpecConcurrent == Init /\ [][NextConcurrent]_vars

(***************************************************************************)
(* Properties.                                                             *)
(***************************************************************************)
Done(c) == pc[c] = "done"
Is(nm) == dist.name = nm
\* no backend exception (shape mismatch, singular solve) was raised
Returned(c) == Done(c) /\ res[c] # Raise

DirichletGuardFails == dist.k <= 1 \/ \E i \in 1..Len(dist.a) : IntOf(dist.a[i]) <= 0
MultinomialGuardFails ==
    \/ IntOf(dist.n) <= 0
    \/ \E i \in 1..Len(value.v) : IntOf(value.v[i]) < 0 \/ IntOf(value.v[i]) > IntOf(dist.n)
WishartGuardFails == IntOf(dist.n) <= IntOf(dist.p) - 1

InRange(x, n) == \A i \in 1..Len(x) : 0 <= IntOf(x[i]) /\ IntOf(x[i]) <= n
NegativeP == \E i \in 1..Len(dist.p) : dist.p[i].q[1] < 0

\* C2 as stated: every out-of-support input (a negative p_i or an x_i outside
\* [0,n] in Multinomial, a singular tau in MvNormal, a singular V in Wishart)
\* makes logp return -inf.
C2_OutOfSupportIsNegInf ==
    \A c \in Callers : Done(c) =>
        /\ Is("Multinomial") /\ (NegativeP \/ ~InRange(value.v, IntOf(dist.n)))
              => res[c] = NegInf
        /\ Is("MvNormal") /\ IsZero(Det(dist.tau)) => res[c] = NegInf
        /\ Is("Wishart") /\ IsZero(Det(dist.V)) => res[c] = NegInf

\* C2 amended: an x_i outside [0,n] in Multinomial and a singular tau in MvNormal
\* give -inf; a negative p_i in Multinomial with n > 0 and every x_i in [0,n]
\* gives NaN; a singular V in Wishart makes solve raise.
C2_OutOfSupportSignals ==
    \A c \in Callers : Done(c) =>
        /\ Is("Multinomial") /\ ~InRange(value.v, IntOf(dist.n)) => res[c] = NegInf
        /\ Is("Multinomial") /\ InRange(value.v, IntOf(dist.n)) /\ IntOf(dist.n) > 0
              /\ NegativeP => res[c] = NaN
        /\ Is("MvNormal") /\ IsZero(Det(dist.tau)) => res[c] = NegInf
        /\ Is("Wishart") /\ IsZero(Det(dist.V)) => res[c] = Raise

\* C2 witness: a Multinomial logp with a negative p_i and every guard true has
\* returned NaN.
C2_Witness ==
    \E c \in Callers :
        /\ Done(c) /\ Is("Multinomial") /\ NegativeP
        /\ IntOf(dist.n) > 0 /\ InRange(value.v, IntOf(dist.n))
        /\ res[c] = NaN

RECURSIVE Fact(_)
Fact(m) == IF m <= 1 THEN 1 ELSE m * Fact(m - 1)
RECURSIVE RPow(_, _)
RPow(r, e) == IF e = 0 THEN <<1, 1>> ELSE RMul(r, RPow(r, e - 1))
RECURSIVE FactProd(_, _)
FactProd(x, i) == IF i > Len(x) THEN 1 ELSE Fact(IntOf(x[i])) * FactProd(x, i + 1)
RECURSIVE PowProd(_, _, _)
PowProd(p, x, i) ==
    IF i > Len(x) THEN <<1, 1>>
    ELSE RMul(RPow(p[i].q, IntOf(x[i])), PowProd(p, x, i + 1))
\* the multinomial probability n!/prod(x_i!) * prod(p_i^x_i), a rational
MultinomialPmf(n, p, x) ==
    RMul(Rat(Fact(n), FactProd(x, 1)), PowProd(p, x, 1))

MultinomialSupport ==
    /\ Is("Multinomial") /\ IntOf(dist.n) > 0
    /\ \A i \in 1..Len(dist.p) : dist.p[i].q[1] > 0
    /\ InRange(value.v, IntOf(dist.n))
    /\ IntSum(value.v) = IntOf(dist.n)

\* C3: for n > 0, every p_i > 0 (summing to 1), 0 <= x_i <= n and sum(x) = n,
\* Multinomial logp(x) is the logarithm of n!/prod(x_i!) * prod(p_i^x_i).
C3_MultinomialLogPmf ==
    \A c \in Callers : Done(c) /\ MultinomialSupport =>
        res[c] = Log(Fin(MultinomialPmf(IntOf(dist.n), dist.p, value.v), ZeroL))

\* C3 witness: a returned logp in the support with n >= 3, two outcomes observed
\* and unequal probabilities.
C3_Witness ==
    \E c \in Callers :
        /\ Done(c) /\ MultinomialSupport /\ IntOf(dist.n) >= 3
        /\ \E i, j \in 1..Len(dist.p) :
              /\ dist.p[i] # dist.p[j]
              /\ IntOf(value.v[i]) > 0 /\ IntOf(value.v[j]) > 0
        /\ IsFin(res[c]) /\ ~IsPure(res[c])

\* C4 as stated: for n > 0 and 0 <= x_i <= n, an outcome with p_i = 0 and
\* x_i > 0 makes Multinomial logp(x) equal -inf, whatever the other coordinates.
C4_ZeroProbabilityIsNegInf ==
    \A c \in Callers :
        /\ Done(c) /\ Is("Multinomial") /\ IntOf(dist.n) > 0
        /\ InRange(value.v, IntOf(dist.n))
        /\ \E i \in 1..Len(dist.p) : IsZero(dist.p[i]) /\ IntOf(value.v[i]) > 0
        => res[c] = NegInf

\* C5 as stated: for a value of length k-1 (k > 1), Dirichlet logp is the
\* log-density at the k coordinates value ++ <<1 - sum(value)>>.
C5_ImplicitLastCoordinate ==
    \A c \in Callers :
        /\ Done(c) /\ Is("Dirichlet") /\ dist.k > 1
        /\ Len(value.v) = dist.k - 1
        => res[c] = Dirichlet_return(dist,
                       Append(value.v, Sub(N(1), Sum(value.v))), N(0))

\* C6: Dirichlet.mode is (a-1)/sum(a-1) in every coordinate when every
\* a_i > 1, and NaN in every coordinate as soon as one a_i <= 1.
C6_DirichletMode ==
    Is("Dirichlet") =>
        LET a == dist.a
            m == Len(a)
            am1 == [i \in 1..m |-> N(IntOf(a[i]) - 1)]
        IN  /\ Len(dist.mode) = m
            /\ (\A i \in 1..m : IntOf(a[i]) > 1)
                  => \A i \in 1..m : dist.mode[i] = Q(IntOf(a[i]) - 1, IntSum(am1))
            /\ (\E i \in 1..m : IntOf(a[i]) <= 1)
                  => \A i \in 1..m : dist.mode[i] = NaN

\* C6 witness: a Dirichlet with some a_i <= 1 and some a_j > 1 whose mode is
\* NaN also in coordinate j.
C6_Witness ==
    /\ Is("Dirichlet")
    /\ \E i, j \in 1..Len(dist.a) :
          /\ IntOf(dist.a[i]) <= 1 /\ IntOf(dist.a[j]) > 1
          /\ dist.mode[j] = NaN

AllEntries(M, x) == \A i \in 1..Len(M) : \A j \in 1..Len(M[i]) : M[i][j] = x

\* C7: Wishart.mode is (n-p-1)*V when n >= p+1 and NaN in every entry when
\* n < p+1; at n = p+1 it is the zero matrix.
C7_WishartMode ==
    Is("Wishart") =>
        LET n == IntOf(dist.n)
            p == IntOf(dist.p)
            V == dist.V
        IN  /\ n >= p + 1 =>
                 \A i \in 1..Len(V) : \A j \in 1..Len(V[i]) :
                     dist.mode[i][j] = N((n - p - 1) * IntOf(V[i][j]))
            /\ n < p + 1 => AllEntries(dist.mode, NaN)
            /\ n = p + 1 => AllEntries(dist.mode, N(0))

\* C7 witness: a Wishart with n = p+1 and V not zero whose mode is the zero
\* matrix.
C7_Witness ==
    /\ Is("Wishart") /\ IntOf(dist.n) = IntOf(dist.p) + 1
    /\ ~AllEntries(dist.V, N(0))
    /\ AllEntries(dist.mode, N(0))

\* C8: under any interleaving of the callers' evaluations the caller's
\* parameter tensors and the value stay as handed over, and every returned
\* result is the one logp gives when run alone on these inputs.
C8_Pure ==
    /\ CallerArgs(dist) = given.args
    /\ value.v = given.v
    /\ \A c \in Callers : Done(c) => res[c] = Logp(dist, given.v)

\* C8 witness: two evaluations of an MvNormal logp with mu # 0 overlapped and
\* both returned a finite result.
C8_Witness ==
    /\ overlapped /\ Is("MvNormal")
    /\ \E i \in 1..Len(dist.mu) : ~IsZero(dist.mu[i])
    /\ \A c \in Callers : Done(c) /\ IsFin(res[c])

WishartModeDefined == Is("Wishart") /\ ~AllEntries(dist.mode, NaN)
DirichletModeDefined ==
    Is("Dirichlet") /\ dist.k > 1 /\ \A i \in 1..Len(dist.mode) : dist.mode[i] # NaN

\* C10: for Wishart, and for Dirichlet with k > 1, a mode that is not NaN
\* implies that the parameter guards of logp hold, so a returned logp is the
\* raw value and not the forced -inf.
C10_ModeDefinedImpliesGuards ==
    /\ WishartModeDefined => All(Wishart_guards(dist))
    /\ DirichletModeDefined => All(Dirichlet_guards(dist))
    /\ \A c \in Callers : Returned(c) =>
          /\ WishartModeDefined => res[c] = Wishart_raw(dist, value.v, Det(dist.V))
          /\ DirichletModeDefined => res[c] = Dirichlet_raw(dist, value.v)

\* C10 witness (the converse fails): a Wishart with n = p has a NaN mode and a
\* returned logp that passed its guard with a finite value.
C10_Witness ==
    \E c \in Callers :
        /\ Returned(c) /\ Is("Wishart") /\ IntOf(dist.n) = IntOf(dist.p)
        /\ AllEntries(dist.mode, NaN)
        /\ All(Wishart_guards(dist))
        /\ IsFin(res[c])
=============================================================================
